---- MODULE Spec2Model ----
(***************************************************************************)
(* The incremental search-and-summarize streaming protocol of the chat     *)
(* application: the server-side tool tavilySearch.execute                  *)
(* (lib/ai/tools/tavilySearch.ts), which writes typed events to a shared   *)
(* data stream, and the client-side reducer TavilySearchResults            *)
(* (components/tavily-search-results.tsx), which folds those events.       *)
(*                                                                         *)
(* Text (summary, delta, content) is a sequence of one-character strings,  *)
(* so that concatenation is \o, substring is SubSeq and the empty string   *)
(* (falsy in JavaScript) is <<>>.  A JavaScript object is a record; a      *)
(* property that is absent or undefined is a field the record lacks.       *)
(***************************************************************************)
EXTENDS Integers, Sequences, FiniteSets, TLC

\* ------------------------------------------------------------------ bounds
MaxQueries == 2   \* longest Query Batch
MaxResults == 6   \* most records in one provider response
MaxDeltas  == 2   \* most fragments the text generator produces
MaxLog     == 2   \* longest channel log delivered to a reducer on its own

\* ------------------------------------------------------- program constants
SliceCap == 5     \* response.results.slice(0, 5)
TruncLen == 150   \* s.content.substring(0, 150)

Min(a, b) == IF a < b THEN a ELSE b

\* ---------------------------------------------------------------- inputs
Calls == {"A", "B"}
UUIDs == {"id1", "id2"}
NoId  == "none"

Url(i)   == <<"https://example.com/", i>>
Query(i) == <<"query", i>>

ShortText == <<"s", "h", "o", "r", "t">>
LongText  == [i \in 1..(TruncLen + 1) |-> "x"]

rA1 == [url |-> Url(1), title |-> "first",  content |-> ShortText, score |-> 9]
rA2 == [url |-> Url(1), title |-> "second", content |-> LongText,  score |-> 8]
rB  == [url |-> Url(2), title |-> "",       content |-> <<>>,      score |-> 7,
        raw_content |-> LongText]
\* a record of a well-formed JSON body that carries no content string
rNoContent == [url |-> Url(3), title |-> "bare", score |-> 1]

LongResults(n) ==
  [i \in 1..n |-> [url |-> Url(10 + i), title |-> "long", content |-> ShortText,
                   score |-> i]]

\* The `results` arrays a provider response may carry.
ResultLists ==
  { <<>>, <<rA1>>, <<rB, rA2, rA1>>, <<rNoContent>>, LongResults(MaxResults) }

\* How one sub-query request can settle.
SettleKinds == {"ok", "notOk", "throw", "badJson"}

\* Fragments the text generator yields.
Fragments == { <<"a">>, <<"b", "c">> }

\* Values a failing generator call throws: Errors with a message, with an
\* empty message, and a thrown value that has no message property.
Failures == { [name |-> "Error", message |-> "boom"],
              [name |-> "Error", message |-> ""],
              [name |-> "NotAnError"] }

\* s.content.substring on a record without content
TypeErrorValue == [name |-> "TypeError", message |-> "substring of undefined"]

\* ------------------------------------------------------------- literals
Searching   == "Searching..."
Summarizing == "Summarizing..."
Complete    == "Complete"
NoResults   == "No results found."
ErrorStatus == "Error occurred during search."
TerminalStatuses == {Complete, NoResults, ErrorStatus}

StatusType  == "tavily-search-status"
SourcesType == "tavily-search-sources"
DeltaType   == "tavily-summary-delta"

NoRelevantText ==
  <<"N","o"," ","r","e","l","e","v","a","n","t"," ","s","e","a","r","c","h"," ",
    "r","e","s","u","l","t","s"," ","f","o","u","n","d",".">>
ErrorSummaryText ==
  <<"A","n"," ","e","r","r","o","r"," ","o","c","c","u","r","r","e","d"," ",
    "d","u","r","i","n","g"," ","t","h","e"," ","s","e","a","r","c","h",".">>
Ellipsis == <<".", ".", ".">>
UndefinedText == <<"u","n","d","e","f","i","n","e","d">>

\* ------------------------------------------------------------- variables
VARIABLES
  apiKey,          \* process.env.TAVILY_API_KEY is set
  queries,         \* the Query Batch of each call
  pc,              \* where each call of execute stands
  toolCallId,      \* the identifier each call generated
  searchResponses, \* per call, per query: pending or the settled response
  allSources,      \* the Source Set of each call
  finalSummary,    \* the Summary Text of each call
  prompt,          \* the prompt each call handed to the generator
  generator,       \* the text generator of each call: idle, streaming, completed, failed
  caught,          \* the value the catch block of each call caught, if any
  result,          \* what execute returned or raised
  dataStream,      \* the channel: every event written, in order
  uuidCalls,       \* number of generateUUID calls so far
  \* the reducer (one mounted TavilySearchResults component)
  mounted, propId, initialResult, status, sources, summary, error, seenLen

serverVars == <<apiKey, queries, pc, toolCallId, searchResponses, allSources,
                finalSummary, prompt, generator, caught, result, uuidCalls>>
reducerVars == <<mounted, propId, initialResult, status, sources, summary,
                 error, seenLen>>
vars == <<serverVars, dataStream, reducerVars>>

\* --------------------------------------------------------------- server

Pending == [state |-> "pending"]
NoResult == [kind |-> "none"]
NoPrompt == [invoked |-> FALSE]
NotCaught == [name |-> "nothing"]

\* Mutant: the credential check is skipped.
CredentialNeverMissing == FALSE

\* if (!apiKey)
CredentialMissing == ~apiKey

\* Mutant: the emptiness test is off by one.
NoSourcesOffByOne(all) == Len(all) <= 1

\* if (allSources.length === 0)
NoSourcesFound(all) == Len(all) = 0

\* Mutant: the initial status event lacks its sources list.
InitialStatusWithoutSources(id) == [toolCallId |-> id, status |-> Searching]

\* The content of the initial status event.
InitialStatus(id) == [toolCallId |-> id, status |-> Searching, sources |-> <<>>]

\* Mutant: the no-results return value is flagged as an error.
NoResultsResultFlagged(id) ==
  [toolCallId |-> id, summary |-> NoRelevantText, sources |-> <<>>,
   error |-> NoResults]

\* The return value of the no-results path.
NoResultsResult(id) ==
  [toolCallId |-> id, summary |-> NoRelevantText, sources |-> <<>>]

\* dataStream.writeData: append to the channel.
writeData(ch, type, content) == Append(ch, [type |-> type, content |-> content])

\* serializeSearchResult: the four named properties; an undefined one is
\* dropped when the event is written as JSON.
serializeSearchResult(r) ==
  [f \in (DOMAIN r) \cap {"title", "url", "content", "score"} |-> r[f]]

SerializeAll(rs) == [i \in 1..Len(rs) |-> serializeSearchResult(rs[i])]

\* The per-query async function of searchPromises: what the request settles to.
SettledResponse(q, kind, results) ==
  IF kind = "ok"
    THEN [state |-> "settled", how |-> kind,
          response |-> [query |-> q, results |-> results]]
    ELSE [state |-> "settled", how |-> kind,
          response |-> [query |-> q, response_time |-> 0, results |-> <<>>]]

\* Mutant: the whole response is taken, no slice.
relevantResultsUncapped(response) == response.results

\* response.results.slice(0, 5)
relevantResults(response) ==
  SubSeq(response.results, 1, Min(SliceCap, Len(response.results)))

\* response?.results?.length > 0
HasResults(r) ==
  /\ "response" \in DOMAIN r
  /\ "results" \in DOMAIN r.response
  /\ Len(r.response.results) > 0

\* Mutant: each answered query replaces the Source Set instead of extending it.
RECURSIVE CollectLoopOverwrites(_, _, _, _, _)
CollectLoopOverwrites(responses, i, id, all, ch) ==
  IF i > Len(responses) THEN [all |-> all, ch |-> ch]
  ELSE IF HasResults(responses[i])
         THEN CollectLoopOverwrites(responses, i + 1, id,
                relevantResults(responses[i].response),
                writeData(ch, SourcesType,
                  [toolCallId |-> id,
                   sources |-> SerializeAll(relevantResults(responses[i].response))]))
         ELSE CollectLoopOverwrites(responses, i + 1, id, all, ch)

\* Mutant: the loop walks the responses from the last one to the first.
RECURSIVE CollectLoopBackwards(_, _, _, _, _)
CollectLoopBackwards(responses, i, id, all, ch) ==
  IF i > Len(responses) THEN [all |-> all, ch |-> ch]
  ELSE LET r == responses[Len(responses) + 1 - i] IN
       IF HasResults(r)
         THEN CollectLoopBackwards(responses, i + 1, id,
                all \o relevantResults(r.response),
                writeData(ch, SourcesType,
                  [toolCallId |-> id,
                   sources |-> SerializeAll(relevantResults(r.response))]))
         ELSE CollectLoopBackwards(responses, i + 1, id, all, ch)

\* The collect loop over searchResponses from index i on: the Source Set and
\* the channel after it.
RECURSIVE CollectLoop(_, _, _, _, _)
CollectLoop(responses, i, id, all, ch) ==
  IF i > Len(responses) THEN [all |-> all, ch |-> ch]
  ELSE LET response == responses[i].response IN
       IF HasResults(responses[i])
         THEN CollectLoop(responses, i + 1, id,
                all \o relevantResults(response),
                writeData(ch, SourcesType,
                  [toolCallId |-> id,
                   sources |-> SerializeAll(relevantResults(response))]))
         ELSE CollectLoop(responses, i + 1, id, all, ch)

\* contextForSummarization and the queries named in summarizationPrompt.
SummarizationPrompt(qs, all) ==
  [invoked |-> TRUE,
   queries |-> qs,
   context |-> [i \in 1..Len(all) |->
                  [index |-> i, url |-> all[i].url,
                   content |-> IF "content" \in DOMAIN all[i]
                                 THEN all[i].content ELSE UndefinedText]]]

\* The content of the catch block's status event: JSON drops an undefined error.
ErrorContent(id, err) ==
  IF "message" \in DOMAIN err
    THEN [toolCallId |-> id, status |-> ErrorStatus, error |-> err.message]
    ELSE [toolCallId |-> id, status |-> ErrorStatus]

\* Mutant: the catch block's return value lacks the error flag.
ErrorResultUnflagged(id, err) ==
  [toolCallId |-> id, summary |-> ErrorSummaryText, sources |-> <<>>]

\* The catch block's return value.
ErrorResult(id, err) ==
  IF "message" \in DOMAIN err
    THEN [toolCallId |-> id, summary |-> ErrorSummaryText, sources |-> <<>>,
          error |-> err.message]
    ELSE [toolCallId |-> id, summary |-> ErrorSummaryText, sources |-> <<>>]

\* Mutant: the ellipsis is appended only to content that was cut.
TruncatedContentOnlyWhenLong(s) ==
  IF Len(s.content) > TruncLen
    THEN SubSeq(s.content, 1, TruncLen) \o Ellipsis
    ELSE s.content

\* `${s.content.substring(0, 150)}...`
TruncatedContent(s) ==
  SubSeq(s.content, 1, Min(TruncLen, Len(s.content))) \o Ellipsis

\* The success return value; computing it throws when a source has no content.
ReturnThrows(all) == \E i \in 1..Len(all) : "content" \notin DOMAIN all[i]

SuccessResult(id, text, all) ==
  [toolCallId |-> id, summary |-> text,
   sources |-> [i \in 1..Len(all) |->
                  [url |-> all[i].url, title |-> all[i].title,
                   content |-> TruncatedContent(all[i])]]]

\* Mutant: the catch block writes the error status and rethrows.
CatchRethrow(c, err, ch) ==
  /\ dataStream' = writeData(ch, StatusType, ErrorContent(toolCallId[c], err))
  /\ result' = [result EXCEPT ![c] = [kind |-> "raised", message |-> "rethrown"]]
  /\ caught' = [caught EXCEPT ![c] = err]
  /\ pc' = [pc EXCEPT ![c] = "raised"]

\* The catch block: write the error status, return the error result.
Catch(c, err, ch) ==
  /\ dataStream' = writeData(ch, StatusType, ErrorContent(toolCallId[c], err))
  /\ result' = [result EXCEPT ![c] =
                  [kind |-> "returned", value |-> ErrorResult(toolCallId[c], err)]]
  /\ caught' = [caught EXCEPT ![c] = err]
  /\ pc' = [pc EXCEPT ![c] = "returned"]

\* execute up to `await Promise.all`: the credential check, the identifier,
\* the initial status and the start of every request.
Start(c) ==
  /\ pc[c] = "init"
  /\ IF CredentialMissing
       THEN /\ pc' = [pc EXCEPT ![c] = "raised"]
            /\ result' = [result EXCEPT ![c] =
                 [kind |-> "raised", message |-> "Tavily API key not configured."]]
            /\ UNCHANGED <<toolCallId, searchResponses, dataStream, uuidCalls>>
       ELSE \E id \in UUIDs :
            /\ toolCallId' = [toolCallId EXCEPT ![c] = id]
            /\ uuidCalls' = uuidCalls + 1
            /\ dataStream' = writeData(dataStream, StatusType, InitialStatus(id))
            /\ searchResponses' = [searchResponses EXCEPT ![c] =
                 [i \in 1..Len(queries[c]) |-> Pending]]
            /\ pc' = [pc EXCEPT ![c] = "fetching"]
            /\ UNCHANGED result
  /\ UNCHANGED <<apiKey, queries, allSources, finalSummary, prompt, generator,
                 caught, reducerVars>>

\* One request settles: fetch resolves or rejects, res.ok, res.json().
Settle(c) ==
  /\ pc[c] = "fetching"
  /\ \E i \in 1..Len(queries[c]), kind \in SettleKinds, results \in ResultLists :
       /\ searchResponses[c][i] = Pending
       /\ kind # "ok" => results = <<>>
       /\ searchResponses' = [searchResponses EXCEPT ![c][i] =
            SettledResponse(queries[c][i], kind, results)]
  /\ UNCHANGED <<apiKey, queries, pc, toolCallId, allSources, finalSummary,
                 prompt, generator, caught, result, dataStream, uuidCalls,
                 reducerVars>>

\* Mutant: the barrier of a call waits for the requests of every call.
AllSettledEveryCall(c) ==
  \A d \in Calls : \A i \in 1..Len(searchResponses[d]) :
    searchResponses[d][i] # Pending

\* Mutant: the barrier lets the call go on once one request has settled.
AnySettled(c) ==
  \E i \in 1..Len(searchResponses[c]) : searchResponses[c][i] # Pending

\* await Promise.all(searchPromises)
AllSettled(c) ==
  \A i \in 1..Len(searchResponses[c]) : searchResponses[c][i] # Pending

\* After the barrier: the collect loop, then either the no-results return or
\* the Summarizing status and the streamText call.
Collect(c) ==
  /\ pc[c] = "fetching"
  /\ AllSettled(c)
  /\ LET after == CollectLoop(searchResponses[c], 1, toolCallId[c], <<>>, dataStream)
     IN /\ allSources' = [allSources EXCEPT ![c] = after.all]
        /\ IF NoSourcesFound(after.all)
             THEN /\ dataStream' = writeData(after.ch, StatusType,
                       [toolCallId |-> toolCallId[c], status |-> NoResults,
                        sources |-> <<>>])
                  /\ result' = [result EXCEPT ![c] =
                       [kind |-> "returned",
                        value |-> NoResultsResult(toolCallId[c])]]
                  /\ pc' = [pc EXCEPT ![c] = "returned"]
                  /\ UNCHANGED <<prompt, generator>>
             ELSE /\ dataStream' = writeData(after.ch, StatusType,
                       [toolCallId |-> toolCallId[c], status |-> Summarizing,
                        sources |-> SerializeAll(after.all)])
                  /\ prompt' = [prompt EXCEPT ![c] =
                       SummarizationPrompt(queries[c], after.all)]
                  /\ generator' = [generator EXCEPT ![c] = "streaming"]
                  /\ pc' = [pc EXCEPT ![c] = "streaming"]
                  /\ UNCHANGED result
  /\ UNCHANGED <<apiKey, queries, toolCallId, searchResponses, finalSummary,
                 caught, uuidCalls, reducerVars>>

\* The generator yields one fragment: accumulate and write it.
GenDelta(c) ==
  /\ pc[c] = "streaming"
  /\ Len(SelectSeq(dataStream, LAMBDA e :
        e.type = DeltaType /\ e.content.toolCallId = toolCallId[c])) < MaxDeltas
  /\ \E delta \in Fragments :
       /\ finalSummary' = [finalSummary EXCEPT ![c] = @ \o delta]
       /\ dataStream' = writeData(dataStream, DeltaType,
            [toolCallId |-> toolCallId[c], delta |-> delta])
  /\ UNCHANGED <<apiKey, queries, pc, toolCallId, searchResponses, allSources,
                 prompt, generator, caught, result, uuidCalls, reducerVars>>

\* The fragment stream ends: write Complete, build the return value; a
\* throw while building it lands in the catch block.
GenDone(c) ==
  /\ pc[c] = "streaming"
  /\ generator' = [generator EXCEPT ![c] = "completed"]
  /\ LET ch == writeData(dataStream, StatusType,
                 [toolCallId |-> toolCallId[c], status |-> Complete,
                  sources |-> SerializeAll(allSources[c]),
                  summary |-> finalSummary[c]])
     IN IF ReturnThrows(allSources[c])
          THEN Catch(c, TypeErrorValue, ch)
          ELSE /\ dataStream' = ch
               /\ result' = [result EXCEPT ![c] =
                    [kind |-> "returned",
                     value |-> SuccessResult(toolCallId[c], finalSummary[c],
                                             allSources[c])]]
               /\ pc' = [pc EXCEPT ![c] = "returned"]
               /\ UNCHANGED caught
  /\ UNCHANGED <<apiKey, queries, toolCallId, searchResponses, allSources,
                 finalSummary, prompt, uuidCalls, reducerVars>>

\* streamText or the fragment stream fails: the catch block.
GenFail(c) ==
  /\ pc[c] = "streaming"
  /\ generator' = [generator EXCEPT ![c] = "failed"]
  /\ \E err \in Failures : Catch(c, err, dataStream)
  /\ UNCHANGED <<apiKey, queries, toolCallId, searchResponses, allSources,
                 finalSummary, prompt, uuidCalls, reducerVars>>

\* -------------------------------------------------------------- reducer
Null == "null"   \* the initial value of `error`; no message of the model equals it

NoInitial == [undefined |-> TRUE]   \* no initialResult prop

\* The state the fold works on.
ReducerState == [status |-> status, sources |-> sources, summary |-> summary,
                 error |-> error]

\* useState initialisers: initialResult?.sources || [], initialResult?.summary || ''
InitialSources(init) == IF "sources" \in DOMAIN init THEN init.sources ELSE <<>>
\* Mutant: the summary of initialResult is not used.
InitialSummaryIgnored(init) == <<>>

InitialSummary(init) == IF "summary" \in DOMAIN init THEN init.summary ELSE <<>>

\* The filter that selects relevantDeltas.
IsRelevant(d, id) ==
  /\ "content" \in DOMAIN d
  /\ "toolCallId" \in DOMAIN d.content
  /\ d.content.toolCallId = id

relevantDeltas(ds, id) == SelectSeq(ds, LAMBDA d : IsRelevant(d, id))

\* Mutant: the new sources are put in front of the ones already held.
AppendUniqueInFront(s, new) ==
  SelectSeq(new, LAMBDA ns : ~\E i \in 1..Len(s) : s[i].url = ns.url) \o s

\* Mutant: every source of the event is appended, known url or not.
AppendAll(s, new) == s \o new

\* The updater handed to setSources: append the sources whose url s lacks.
AppendUnique(s, new) ==
  s \o SelectSeq(new, LAMBDA ns : ~\E i \in 1..Len(s) : s[i].url = ns.url)

\* Mutant: once the status is terminal no event is folded any more.
FoldDeltaUntilTerminal(st, d) ==
  LET content == d.content
      has(f) == f \in DOMAIN content
  IN CASE st.status \in TerminalStatuses -> st
       [] d.type = StatusType ->
            [status  |-> IF has("status") /\ content.status # ""
                           THEN content.status ELSE st.status,
             sources |-> IF has("sources")
                           THEN AppendUnique(st.sources, content.sources)
                           ELSE st.sources,
             summary |-> IF has("summary") /\ content.summary # <<>>
                           THEN content.summary ELSE st.summary,
             error   |-> IF has("error") /\ content.error # ""
                           THEN content.error ELSE st.error]
       [] d.type = SourcesType ->
            [st EXCEPT !.sources = IF has("sources")
                                     THEN AppendUnique(@, content.sources) ELSE @]
       [] d.type = DeltaType ->
            [st EXCEPT !.summary = IF has("delta") /\ content.delta # <<>>
                                     THEN @ \o content.delta ELSE @]
       [] OTHER -> st

\* Mutant: the summary of a status event is appended, not put in place.
FoldDeltaSummaryAppended(st, d) ==
  LET content == d.content
      has(f) == f \in DOMAIN content
  IN CASE d.type = StatusType ->
            [status  |-> IF has("status") /\ content.status # ""
                           THEN content.status ELSE st.status,
             sources |-> IF has("sources")
                           THEN AppendUnique(st.sources, content.sources)
                           ELSE st.sources,
             summary |-> IF has("summary") /\ content.summary # <<>>
                           THEN st.summary \o content.summary ELSE st.summary,
             error   |-> IF has("error") /\ content.error # ""
                           THEN content.error ELSE st.error]
       [] d.type = SourcesType ->
            [st EXCEPT !.sources = IF has("sources")
                                     THEN AppendUnique(@, content.sources) ELSE @]
       [] d.type = DeltaType ->
            [st EXCEPT !.summary = IF has("delta") /\ content.delta # <<>>
                                     THEN @ \o content.delta ELSE @]
       [] OTHER -> st

\* One iteration of relevantDeltas.forEach: the switch on delta.type.
FoldDelta(st, d) ==
  LET content == d.content
      has(f) == f \in DOMAIN content
  IN CASE d.type = StatusType ->
            [status  |-> IF has("status") /\ content.status # ""
                           THEN content.status ELSE st.status,
             sources |-> IF has("sources")
                           THEN AppendUnique(st.sources, content.sources)
                           ELSE st.sources,
             summary |-> IF has("summary") /\ content.summary # <<>>
                           THEN content.summary ELSE st.summary,
             error   |-> IF has("error") /\ content.error # ""
                           THEN content.error ELSE st.error]
       [] d.type = SourcesType ->
            [st EXCEPT !.sources = IF has("sources")
                                     THEN AppendUnique(@, content.sources) ELSE @]
       [] d.type = DeltaType ->
            [st EXCEPT !.summary = IF has("delta") /\ content.delta # <<>>
                                     THEN @ \o content.delta ELSE @]
       [] OTHER -> st

\* The whole forEach, from the state the component is in.
RECURSIVE FoldAll(_, _)
FoldAll(st, ds) ==
  IF ds = <<>> THEN st ELSE FoldAll(FoldDelta(st, Head(ds)), Tail(ds))

\* Mutant: the last source of every url is kept.
uniqueSourcesLastWins(srcs) ==
  LET keep[i \in 0..Len(srcs)] ==
        IF i = 0 THEN <<>>
        ELSE IF \E j \in (i + 1)..Len(srcs) : srcs[j].url = srcs[i].url
               THEN keep[i - 1]
               ELSE Append(keep[i - 1], srcs[i])
  IN keep[Len(srcs)]

\* The useMemo: keep the first source of every url.
uniqueSources(srcs) ==
  LET keep[i \in 0..Len(srcs)] ==
        IF i = 0 THEN <<>>
        ELSE IF \E j \in 1..(i - 1) : srcs[j].url = srcs[i].url
               THEN keep[i - 1]
               ELSE Append(keep[i - 1], srcs[i])
  IN keep[Len(srcs)]

\* The component is constructed for call `id` with the given initialResult.
Mounted(id, init) ==
  /\ mounted = TRUE
  /\ propId = id
  /\ initialResult = init
  /\ status = Searching
  /\ sources = InitialSources(init)
  /\ summary = InitialSummary(init)
  /\ error = Null
  /\ seenLen = -1

\* The effect runs (first render, or dataStream changed): fold every relevant
\* delta of the whole dataStream onto the current state.
RunEffect ==
  /\ mounted
  /\ seenLen # Len(dataStream)
  /\ LET st == FoldAll(ReducerState, relevantDeltas(dataStream, propId))
     IN /\ status' = st.status
        /\ sources' = st.sources
        /\ summary' = st.summary
        /\ error' = st.error
  /\ seenLen' = Len(dataStream)
  /\ UNCHANGED <<serverVars, dataStream, mounted, propId, initialResult>>

\* ------------------------------------------------------- specification
QueryBatches == { [i \in 1..n |-> Query(i)] : n \in 0..MaxQueries }

ReducerIdle ==
  /\ mounted = FALSE
  /\ propId = NoId
  /\ initialResult = NoInitial
  /\ status = Searching
  /\ sources = <<>>
  /\ summary = <<>>
  /\ error = Null
  /\ seenLen = -1

ServerInit(live) ==
  /\ apiKey \in BOOLEAN
  /\ queries \in [Calls -> QueryBatches]
  /\ \A c \in Calls \ live : queries[c] = <<>>
  /\ pc = [c \in Calls |-> IF c \in live THEN "init" ELSE "off"]
  /\ toolCallId = [c \in Calls |-> NoId]
  /\ searchResponses = [c \in Calls |-> <<>>]
  /\ allSources = [c \in Calls |-> <<>>]
  /\ finalSummary = [c \in Calls |-> <<>>]
  /\ prompt = [c \in Calls |-> NoPrompt]
  /\ generator = [c \in Calls |-> "idle"]
  /\ caught = [c \in Calls |-> NotCaught]
  /\ result = [c \in Calls |-> NoResult]
  /\ dataStream = <<>>
  /\ uuidCalls = 0

\* One call of execute, no reducer mounted.
Init == ServerInit({"A"}) /\ ReducerIdle

StartA    == Start("A")
SettleA   == Settle("A")
CollectA  == Collect("A")
GenDeltaA == GenDelta("A")
GenDoneA  == GenDone("A")
GenFailA  == GenFail("A")

Next == StartA \/ SettleA \/ CollectA \/ GenDeltaA \/ GenDoneA \/ GenFailA

Spec == Init /\ [][Next]_vars

\* The JSX the component returns for state st, with the card expanded: which
\* elements are shown and what they hold.
Render(st) ==
  LET view     == uniqueSources(st.sources)
      hasError == st.error # Null /\ st.error # ""
      tabs     == (st.status # Searching \/ Len(view) > 0) /\ ~hasError
  IN [spinner          |-> st.status = Searching \/ st.status = Summarizing,
      errorText        |-> IF hasError THEN st.error ELSE Null,
      placeholder      |-> st.status = Searching /\ ~hasError /\ Len(view) = 0,
      tabs             |-> tabs,
      summaryDisabled  |-> tabs /\ st.status = Searching /\ Len(st.summary) = 0,
      sourcesDisabled  |-> tabs /\ Len(view) = 0,
      sourcesCount     |-> IF tabs THEN Len(view) ELSE 0,
      generating       |-> tabs /\ st.status = Summarizing /\ Len(st.summary) = 0,
      markdown         |-> IF tabs THEN st.summary ELSE <<>>,
      summaryGenerated |-> tabs /\ Len(st.summary) = 0 /\ st.status = Complete,
      noResultsText    |-> tabs /\ st.status = NoResults,
      sourceCards      |-> IF tabs THEN view ELSE <<>>,
      noSourcesText    |-> tabs /\ Len(view) = 0 /\ st.status # Searching]

\* --------------------------------------------- the reducer on its own
\* Sources as they travel on the channel.
sA1 == serializeSearchResult(rA1)
sA2 == serializeSearchResult(rA2)
sB  == serializeSearchResult(rB)
sC  == serializeSearchResult(rNoContent)
\* a second record under the url of sB
sB2 == [url |-> Url(2), title |-> "again", content |-> ShortText, score |-> 6]


\* Values of the initialResult prop: none, a persisted success result, a
\* persisted error result, a result object without summary and sources.
InitialResults ==
  { NoInitial,
    [toolCallId |-> "id1", summary |-> <<"o", "l", "d">>,
     sources |-> <<[url |-> Url(1), title |-> "seed", content |-> Ellipsis]>>],
    [toolCallId |-> "id1", summary |-> ErrorSummaryText, sources |-> <<>>,
     error |-> "boom"],
    [toolCallId |-> "id1", summary |-> <<"k", "e", "p", "t">>],
    [toolCallId |-> "id1"] }

StatusEvent(content) == [type |-> StatusType, content |-> content]

\* Events a channel may carry: of the reducer's call, of another call, and
\* without a call identifier.
ChannelEvents ==
  { StatusEvent([toolCallId |-> "id1", status |-> Searching, sources |-> <<>>]),
    [type |-> SourcesType, content |-> [toolCallId |-> "id1", sources |-> <<sA1, sB>>]],
    [type |-> SourcesType, content |-> [toolCallId |-> "id1", sources |-> <<sA2, sB, sB2>>]],
    StatusEvent([toolCallId |-> "id1", status |-> Summarizing,
                 sources |-> <<sB, sA2>>]),
    [type |-> DeltaType, content |-> [toolCallId |-> "id1", delta |-> <<"a">>]],
    [type |-> DeltaType, content |-> [toolCallId |-> "id1", delta |-> <<>>]],
    StatusEvent([toolCallId |-> "id1", status |-> Complete,
                 sources |-> <<sA1, sB>>, summary |-> <<"a", "b">>]),
    StatusEvent([toolCallId |-> "id1", status |-> Complete,
                 sources |-> <<>>, summary |-> <<>>]),
    StatusEvent([toolCallId |-> "id1", status |-> NoResults, sources |-> <<>>]),
    StatusEvent([toolCallId |-> "id1", status |-> ErrorStatus, error |-> "boom"]),
    StatusEvent([toolCallId |-> "id1", status |-> ErrorStatus]),
    [type |-> DeltaType, content |-> [toolCallId |-> "id2", delta |-> <<"z">>]],
    StatusEvent([status |-> Complete, sources |-> <<sC>>, summary |-> <<"n">>]) }

\* Some writer appends an event to the channel.
Deliver ==
  /\ Len(dataStream) < MaxLog
  /\ \E e \in ChannelEvents : dataStream' = Append(dataStream, e)
  /\ UNCHANGED <<serverVars, reducerVars>>

\* A component for call id1 over a channel that no call of this model writes.
InitReducer ==
  /\ ServerInit({})
  /\ \E init \in InitialResults : Mounted("id1", init)

NextReducer == Deliver \/ RunEffect

SpecReducer == InitReducer /\ [][NextReducer]_vars

\* Every request settles and the generator ends: the premise under which a
\* call is claimed to terminate.  The event loop runs every ready continuation.
LiveSpec ==
  /\ Init
  /\ [][Next]_vars
  /\ WF_vars(StartA)
  /\ WF_vars(SettleA)
  /\ WF_vars(CollectA)
  /\ WF_vars(GenDoneA \/ GenFailA)

\* ------------------------------------------------------------ properties
RECURSIVE Flatten(_)
Flatten(seqs) == IF seqs = <<>> THEN <<>> ELSE Head(seqs) \o Flatten(Tail(seqs))

Take(seq, n) == [j \in 1..Min(n, Len(seq)) |-> seq[j]]

IsPrefix(a, b) == Len(a) <= Len(b) /\ SubSeq(b, 1, Len(a)) = a

Started(c) == toolCallId[c] # NoId

\* The events a call wrote, in order.
EventsOf(c) ==
  SelectSeq(dataStream, LAMBDA e :
    Started(c) /\ "toolCallId" \in DOMAIN e.content
               /\ e.content.toolCallId = toolCallId[c])

StatusEventsOf(c)  == SelectSeq(EventsOf(c), LAMBDA e : e.type = StatusType)
SourcesEventsOf(c) == SelectSeq(EventsOf(c), LAMBDA e : e.type = SourcesType)
DeltaEventsOf(c)   == SelectSeq(EventsOf(c), LAMBDA e : e.type = DeltaType)

IsTerminalEvent(e) == e.type = StatusType /\ e.content.status \in TerminalStatuses
TerminalEventsOf(c) == SelectSeq(EventsOf(c), IsTerminalEvent)

HasStatus(c, st) ==
  \E k \in 1..Len(StatusEventsOf(c)) : StatusEventsOf(c)[k].content.status = st

LastEventOf(c) == EventsOf(c)[Len(EventsOf(c))]

\* The concatenation of the delta fragments a call wrote.
DeltaText(c) ==
  Flatten([k \in 1..Len(DeltaEventsOf(c)) |-> DeltaEventsOf(c)[k].content.delta])

\* The results arrays of a call's settled responses, in submission order.
ResultsOf(c) ==
  [i \in 1..Len(searchResponses[c]) |-> searchResponses[c][i].response.results]

PastBarrier(c) == pc[c] \in {"streaming", "returned"}

FailedQuery(c, i) == searchResponses[c][i] # Pending /\ searchResponses[c][i].how # "ok"

\* C1: every call that has the credential writes exactly one terminal status
\* event, and that event is the last event the call writes.
C1_OneTerminalStatusLast ==
  \A c \in Calls :
    /\ Len(TerminalEventsOf(c)) <= 1
    /\ Len(TerminalEventsOf(c)) = 1 => IsTerminalEvent(LastEventOf(c))
    /\ pc[c] = "returned" => Len(TerminalEventsOf(c)) = 1

\* C2: when every request settles and the generator ends, a call that started
\* with the credential eventually writes a terminal status and returns a
\* result object.
C2_EventuallyTerminal ==
  \A c \in Calls :
    (pc[c] = "fetching") ~>
      (/\ pc[c] = "returned"
       /\ result[c].kind = "returned"
       /\ IsTerminalEvent(LastEventOf(c)))

C2_Witness ==
  \E c \in Calls :
    /\ pc[c] = "returned"
    /\ generator[c] = "completed"
    /\ Len(DeltaEventsOf(c)) = MaxDeltas
    /\ \E i \in 1..Len(queries[c]) : FailedQuery(c, i)

\* C3: for a call that wrote Complete, the concatenation of its delta
\* fragments equals the summary of the Complete event and the summary of the
\* returned result.
C3_SummaryAccumulation ==
  \A c \in Calls :
    HasStatus(c, Complete) =>
      /\ \A k \in 1..Len(StatusEventsOf(c)) :
           StatusEventsOf(c)[k].content.status = Complete =>
             StatusEventsOf(c)[k].content.summary = DeltaText(c)
      /\ pc[c] = "returned" => result[c].value.summary = DeltaText(c)

\* The part of the log the last effect run has folded, for the reducer's call.
SeenDeltas ==
  IF seenLen < 0 THEN <<>>
  ELSE SelectSeq(SubSeq(dataStream, 1, seenLen), LAMBDA d :
         "toolCallId" \in DOMAIN d.content /\ d.content.toolCallId = propId)

\* Every source the reducer has been given, in the order given: the seed,
\* then the sources lists of the status and sources events folded.
SeenSources ==
  InitialSources(initialResult) \o
    Flatten([k \in 1..Len(SeenDeltas) |->
      IF SeenDeltas[k].type \in {StatusType, SourcesType}
           /\ "sources" \in DOMAIN SeenDeltas[k].content
        THEN SeenDeltas[k].content.sources ELSE <<>>])

FirstIndex(seq, u) ==
  CHOOSE i \in 1..Len(seq) :
    seq[i].url = u /\ \A j \in 1..(i - 1) : seq[j].url # u

\* C4: the source list shown holds every url given to the reducer exactly
\* once, in first-seen order, with the record that was seen first.
C4_ClientDedup ==
  mounted =>
    LET view == uniqueSources(sources)
        all  == SeenSources
    IN /\ \A i, j \in 1..Len(view) : i # j => view[i].url # view[j].url
       /\ {view[i].url : i \in 1..Len(view)} = {all[k].url : k \in 1..Len(all)}
       /\ \A i \in 1..Len(view) : view[i] = all[FirstIndex(all, view[i].url)]
       /\ \A i, j \in 1..Len(view) :
            i < j => FirstIndex(all, view[i].url) < FirstIndex(all, view[j].url)

C4_Witness ==
  /\ mounted
  /\ seenLen >= 2
  /\ InitialSources(initialResult) # <<>>
  /\ Len(uniqueSources(sources)) < Len(sources)
  /\ \E k \in 1..Len(SeenSources) :
       SeenSources[k].url = Url(1) /\ SeenSources[k].title = "second"
  /\ uniqueSources(sources)[1].title = "seed"

\* C5: folding an event of the reducer's call twice in a row yields the
\* state that folding it once yields.
C5_IdempotentReplay ==
  mounted =>
    \A e \in ChannelEvents :
      IsRelevant(e, propId) =>
        FoldDelta(FoldDelta(ReducerState, e), e) = FoldDelta(ReducerState, e)

\* C6: of every response only the first 5 records, in response order, enter
\* the Source Set and the response's sources event.
C6_CapEnforcement ==
  \A c \in Calls :
    PastBarrier(c) =>
      LET evs == SourcesEventsOf(c)
          res == SelectSeq(ResultsOf(c), LAMBDA r : Len(r) > 0)
      IN /\ Len(evs) = Len(res)
         /\ \A k \in 1..Len(evs) :
              LET carried == evs[k].content.sources
              IN /\ Len(carried) <= 5
                 /\ Len(carried) = Min(5, Len(res[k]))
                 /\ \A j \in 1..Len(carried) :
                      /\ carried[j].url = res[k][j].url
                      /\ carried[j].title = res[k][j].title
         /\ allSources[c] = Flatten([k \in 1..Len(res) |-> Take(res[k], 5)])

C6_Witness ==
  \E c \in Calls :
    /\ pc[c] = "returned"
    /\ HasStatus(c, Complete)
    /\ \E i \in 1..Len(ResultsOf(c)) : Len(ResultsOf(c)[i]) > 5
    /\ Len(allSources[c]) > 5

\* C7: a request that throws, answers with a non-success status or an
\* unparsable body contributes no record and never leads to the error
\* status; with records from another query and a generator that completes,
\* the call ends in Complete.
C7_FailureIsolation ==
  \A c \in Calls :
    /\ \A i \in 1..Len(searchResponses[c]) :
         FailedQuery(c, i) => searchResponses[c][i].response.results = <<>>
    /\ HasStatus(c, ErrorStatus) => generator[c] \in {"failed", "completed"}
    /\ ( /\ pc[c] = "returned"
         /\ \E i \in 1..Len(searchResponses[c]) : FailedQuery(c, i)
         /\ \E j \in 1..Len(searchResponses[c]) : Len(ResultsOf(c)[j]) > 0
         /\ generator[c] = "completed" )
       => LastEventOf(c).content.status = Complete

\* C8: without the credential execute raises and nothing else happens: no
\* event, no identifier, no request, no generator call; and execute raises on
\* no other path.
C8_ConfigurationError ==
  \A c \in Calls :
    /\ (~apiKey /\ pc[c] # "off") =>
         /\ pc[c] \in {"init", "raised"}
         /\ dataStream = <<>>
         /\ uuidCalls = 0
         /\ toolCallId[c] = NoId
         /\ searchResponses[c] = <<>>
         /\ ~prompt[c].invoked
         /\ generator[c] = "idle"
    /\ pc[c] = "raised" <=> result[c].kind = "raised"
    /\ result[c].kind = "raised" => ~apiKey

C8_Witness ==
  \E c \in Calls : pc[c] = "raised" /\ Len(queries[c]) > 0 /\ ~apiKey

\* What the catch block is to return for the value it caught.
ExpectedErrorResult(c) ==
  IF "message" \in DOMAIN caught[c]
    THEN [toolCallId |-> toolCallId[c], summary |-> ErrorSummaryText,
          sources |-> <<>>, error |-> caught[c].message]
    ELSE [toolCallId |-> toolCallId[c], summary |-> ErrorSummaryText,
          sources |-> <<>>]

C9_ErrorReported ==
  \A c \in Calls :
    /\ generator[c] = "failed" => caught[c] \in Failures
    /\ (generator[c] = "completed"
          /\ \E i \in 1..Len(allSources[c]) : "content" \notin DOMAIN allSources[c][i])
         => caught[c] = TypeErrorValue
    /\ caught[c] # NotCaught =>
         /\ pc[c] = "returned"
         /\ LastEventOf(c).type = StatusType
         /\ LastEventOf(c).content.status = ErrorStatus
         /\ "message" \in DOMAIN caught[c] =>
              /\ "error" \in DOMAIN LastEventOf(c).content
              /\ LastEventOf(c).content.error = caught[c].message
         /\ result[c] = [kind |-> "returned", value |-> ExpectedErrorResult(c)]

\* C9: a failure after the initial status, outside the per-query boundary,
\* ends the call with the error status carrying the failure's message and
\* with the error result returned, not raised; events already written stay.
C9_GlobalErrorHandling ==
  /\ []C9_ErrorReported
  /\ [][IsPrefix(dataStream, dataStream')]_vars

C9_Witness ==
  \E c \in Calls :
    /\ caught[c] \in Failures
    /\ "message" \in DOMAIN caught[c]
    /\ caught[c].message # ""
    /\ Len(DeltaEventsOf(c)) >= 1
    /\ Len(SourcesEventsOf(c)) >= 1

\* C10: a call writes `No results found.` exactly when, after the barrier,
\* every sub-query contributed no record; such a call wrote no sources event
\* and only status events with an empty sources list.
C10_NoResultsCondition ==
  \A c \in Calls :
    /\ PastBarrier(c) =>
         (HasStatus(c, NoResults) <=>
            \A i \in 1..Len(ResultsOf(c)) : Len(ResultsOf(c)[i]) = 0)
    /\ HasStatus(c, NoResults) =>
         /\ PastBarrier(c)
         /\ Len(SourcesEventsOf(c)) = 0
         /\ \A k \in 1..Len(StatusEventsOf(c)) :
              /\ "sources" \in DOMAIN StatusEventsOf(c)[k].content
              /\ StatusEventsOf(c)[k].content.sources = <<>>
    /\ (\E k \in 1..Len(EventsOf(c)) :
          /\ "sources" \in DOMAIN EventsOf(c)[k].content
          /\ EventsOf(c)[k].content.sources # <<>>)
         => ~HasStatus(c, NoResults)

C10_Witness ==
  \E c \in Calls :
    /\ HasStatus(c, NoResults)
    /\ Len(queries[c]) >= 2
    /\ \E i \in 1..Len(queries[c]) : FailedQuery(c, i)
    /\ \E i \in 1..Len(queries[c]) : searchResponses[c][i].how = "ok"

\* C11: on the no-results path summarization never starts and execute
\* returns exactly the no-results object, without an error field.
C11_NoSummarizationWithoutResults ==
  \A c \in Calls :
    HasStatus(c, NoResults) =>
      /\ ~HasStatus(c, Summarizing)
      /\ Len(DeltaEventsOf(c)) = 0
      /\ ~prompt[c].invoked
      /\ generator[c] = "idle"
      /\ finalSummary[c] = <<>>
      /\ result[c] = [kind |-> "returned",
                      value |-> [toolCallId |-> toolCallId[c],
                                 summary |-> NoRelevantText, sources |-> <<>>]]
      /\ "error" \notin DOMAIN result[c].value

C11_Witness ==
  \E c \in Calls :
    /\ HasStatus(c, NoResults)
    /\ pc[c] = "returned"
    /\ Len(queries[c]) = 2
    /\ \A i \in 1..Len(queries[c]) : searchResponses[c][i].how = "ok"

UniqueUrls(seq) == \A i, j \in 1..Len(seq) : i # j => seq[i].url # seq[j].url

\* C12: the Source Set of a call, as carried by its Summarizing and Complete
\* events, enumerated in its prompt and returned, holds each url at most once.
C12_SourceSetUnique ==
  \A c \in Calls :
    /\ UniqueUrls(allSources[c])
    /\ \A k \in 1..Len(StatusEventsOf(c)) :
         StatusEventsOf(c)[k].content.status \in {Summarizing, Complete}
           => UniqueUrls(StatusEventsOf(c)[k].content.sources)
    /\ prompt[c].invoked => UniqueUrls(prompt[c].context)
    /\ result[c].kind = "returned" => UniqueUrls(result[c].value.sources)

EndsInComplete(c) ==
  /\ pc[c] = "returned"
  /\ LastEventOf(c).type = StatusType
  /\ LastEventOf(c).content.status = Complete

\* C13: a call that ends in Complete returns the full Summary Text and one
\* entry per Source Set record, in order, with url, title and the first 150
\* characters of the content followed by "...", and no error field.
C13_SuccessReturnShape ==
  \A c \in Calls :
    EndsInComplete(c) =>
      LET v   == result[c].value
          all == allSources[c]
      IN /\ result[c].kind = "returned"
         /\ DOMAIN v = {"toolCallId", "summary", "sources"}
         /\ v.toolCallId = toolCallId[c]
         /\ v.summary = finalSummary[c]
         /\ v.summary = DeltaText(c)
         /\ Len(v.sources) = Len(all)
         /\ \A i \in 1..Len(all) :
              LET got  == v.sources[i]
                  full == all[i].content
                  n    == Min(150, Len(full))
              IN /\ DOMAIN got = {"url", "title", "content"}
                 /\ got.url = all[i].url
                 /\ got.title = all[i].title
                 /\ Len(got.content) = n + 3
                 /\ Len(got.content) <= 153
                 /\ \A j \in 1..n : got.content[j] = full[j]
                 /\ \A j \in (n + 1)..(n + 3) : got.content[j] = "."
                 /\ Len(full) < 150 => SubSeq(got.content, 1, Len(full)) = full

C13_Witness ==
  \E c \in Calls :
    /\ EndsInComplete(c)
    /\ Len(DeltaEventsOf(c)) >= 1
    /\ \E i \in 1..Len(allSources[c]) : Len(allSources[c][i].content) > 150
    /\ \E i \in 1..Len(allSources[c]) : Len(allSources[c][i].content) < 150

IsStatus(e, st) == e.type = StatusType /\ e.content.status = st

\* C14: the events of a call start with the Searching status carrying an
\* empty sources list; sources events precede Summarizing, Summarizing
\* precedes every delta, and Complete follows every delta.
C14_EventOrdering ==
  \A c \in Calls :
    LET evs == EventsOf(c)
        N   == 1..Len(evs)
    IN /\ Started(c) => Len(evs) >= 1
       /\ Len(evs) >= 1 =>
            /\ IsStatus(evs[1], Searching)
            /\ "sources" \in DOMAIN evs[1].content
            /\ evs[1].content.sources = <<>>
       /\ \A i, j \in N :
            (evs[i].type = SourcesType /\ IsStatus(evs[j], Summarizing)) => i < j
       /\ \A i, j \in N :
            (IsStatus(evs[i], Summarizing) /\ evs[j].type = DeltaType) => i < j
       /\ \A j \in N :
            evs[j].type = DeltaType =>
              \E i \in 1..(j - 1) : IsStatus(evs[i], Summarizing)
       /\ \A i, j \in N :
            (IsStatus(evs[i], Complete) /\ evs[j].type = DeltaType) => j < i

C14_Witness ==
  \E c \in Calls :
    /\ HasStatus(c, Complete)
    /\ Len(SourcesEventsOf(c)) >= 2
    /\ Len(DeltaEventsOf(c)) >= 2

\* No event on the channel is addressed to the reducer's call.
NoOwnEvent ==
  \A k \in 1..Len(dataStream) :
    ~("toolCallId" \in DOMAIN dataStream[k].content
        /\ dataStream[k].content.toolCallId = propId)

\* C15: with no event for its call on the channel the reducer shows status
\* Searching, error null, and the sources and summary of initialResult, each
\* falling back to the empty default when missing.
C15_ReducerInitialState ==
  (mounted /\ NoOwnEvent) =>
    /\ status = Searching
    /\ error = Null
    /\ sources = IF "sources" \in DOMAIN initialResult
                   THEN initialResult.sources ELSE <<>>
    /\ summary = IF "summary" \in DOMAIN initialResult
                   THEN initialResult.summary ELSE <<>>

C15_Witness ==
  /\ mounted
  /\ NoOwnEvent
  /\ seenLen >= 1
  /\ "summary" \in DOMAIN initialResult
  /\ "sources" \notin DOMAIN initialResult
  /\ summary # <<>>

\* C19: every sources event carries a non-empty list of at most 5 records,
\* no url twice and no url that an earlier sources event of the call carried.
C19_SourcesEventIsFilteredSlice ==
  \A c \in Calls :
    LET evs == SourcesEventsOf(c)
    IN \A k \in 1..Len(evs) :
         LET carried == evs[k].content.sources
         IN /\ Len(carried) > 0
            /\ Len(carried) <= 5
            /\ UniqueUrls(carried)
            /\ \A e \in 1..(k - 1) :
                 \A i \in 1..Len(carried), j \in 1..Len(evs[e].content.sources) :
                   carried[i].url # evs[e].content.sources[j].url

\* C20: while a sub-query of a call is unsettled the call has written
\* nothing but its initial Searching status.
C20_AllCompleteBarrier ==
  \A c \in Calls :
    (\E i \in 1..Len(searchResponses[c]) : searchResponses[c][i] = Pending) =>
      /\ Len(EventsOf(c)) = 1
      /\ IsStatus(EventsOf(c)[1], Searching)
      /\ Len(SourcesEventsOf(c)) = 0
      /\ ~HasStatus(c, Summarizing)
      /\ ~HasStatus(c, NoResults)

C20_Witness ==
  \E c \in Calls :
    /\ \E i \in 1..Len(searchResponses[c]) : searchResponses[c][i] = Pending
    /\ \E i \in 1..Len(searchResponses[c]) :
         /\ searchResponses[c][i] # Pending
         /\ Len(searchResponses[c][i].response.results) > 0

\* ------------------------------------------------- reload of a finished call
\* The page is reloaded after call c returned: the channel of the new page is
\* empty and the component is constructed from the persisted return value.
Reload(c) ==
  /\ pc[c] = "returned"
  /\ result[c].kind = "returned"
  /\ ~mounted
  /\ dataStream' = <<>>
  /\ mounted' = TRUE
  /\ propId' = toolCallId[c]
  /\ initialResult' = result[c].value
  /\ status' = Searching
  /\ sources' = InitialSources(result[c].value)
  /\ summary' = InitialSummary(result[c].value)
  /\ error' = Null
  /\ seenLen' = -1
  /\ UNCHANGED serverVars

ReloadA == Reload("A")

NextReload ==
  \/ StartA \/ SettleA \/ CollectA \/ GenDeltaA \/ GenDoneA \/ GenFailA
  \/ ReloadA \/ RunEffect

\* One call of execute, then a reload of the page that showed it.
SpecReload == Init /\ [][NextReload]_vars

\* The terminal status a returned call wrote last.
FinalStatusOf(c) ==
  IF caught[c] # NotCaught THEN ErrorStatus
  ELSE IF Len(allSources[c]) = 0 THEN NoResults
  ELSE Complete

\* C16: a reducer constructed from the return value of a terminated call, with
\* no event of the call on the channel, shows the call's terminal status, the
\* sources and summary of the return value, and the error of a failed call.
C16_ReloadRecovery ==
  \A c \in Calls :
    (mounted /\ pc[c] = "returned" /\ propId = toolCallId[c] /\ NoOwnEvent) =>
      /\ status = FinalStatusOf(c)
      /\ status \notin {Searching, Summarizing}
      /\ sources = result[c].value.sources
      /\ summary = result[c].value.summary
      /\ "error" \in DOMAIN result[c].value => error = result[c].value.error

\* C17: an effect run whose only new events carry another call id, or none,
\* leaves status, sources, summary and error unchanged.
C17_CallIsolation ==
  [][ ( /\ mounted
        /\ seenLen >= 0
        /\ \A k \in (seenLen + 1)..Len(dataStream) :
             ~IsRelevant(dataStream[k], propId) )
      => ReducerState' = ReducerState ]_vars

\* ------------------------------------------- effect run after every event
\* An event arrives once the effect has run for every earlier change.
DeliverSeen ==
  /\ seenLen = Len(dataStream)
  /\ Deliver

NextLockstep == DeliverSeen \/ RunEffect

\* The channel grows event by event and the effect re-runs after each change.
SpecLockstep == InitReducer /\ [][NextLockstep]_vars

OwnEvents == relevantDeltas(dataStream, propId)

OwnDeltas == SelectSeq(OwnEvents, LAMBDA e : e.type = DeltaType)

SummaryCarried ==
  \E k \in 1..Len(OwnEvents) :
    OwnEvents[k].type = StatusType /\ "summary" \in DOMAIN OwnEvents[k].content

\* C18: after each effect run, and before a status event carrying a summary,
\* the summary is the initial summary followed by the delta fragments of the
\* call's events in the log, in order, each exactly once.
C18_IncrementalSummary ==
  (mounted /\ seenLen = Len(dataStream) /\ ~SummaryCarried) =>
    summary =
      (IF "summary" \in DOMAIN initialResult THEN initialResult.summary ELSE <<>>)
        \o Flatten([k \in 1..Len(OwnDeltas) |-> OwnDeltas[k].content.delta])

\* The indices of the queries whose response carried records, ascending.
AnsweredQueries(c) ==
  SelectSeq([i \in 1..Len(searchResponses[c]) |-> i],
            LAMBDA i : Len(searchResponses[c][i].response.results) > 0)

FirstFive(c, i) == Take(searchResponses[c][i].response.results, 5)

\* C21: whatever the order in which the requests settled, the k-th sources
\* event carries the records of the k-th answered query in submission order,
\* and the Source Set is the concatenation of those lists in that order.
C21_SourceEventOrder ==
  \A c \in Calls :
    PastBarrier(c) =>
      LET idx == AnsweredQueries(c)
          evs == SourcesEventsOf(c)
      IN /\ Len(evs) = Len(idx)
         /\ \A k \in 1..Len(idx) :
              evs[k].content.sources = SerializeAll(FirstFive(c, idx[k]))
         /\ allSources[c] = Flatten([k \in 1..Len(idx) |-> FirstFive(c, idx[k])])

C21_Witness ==
  \E c \in Calls :
    /\ PastBarrier(c)
    /\ Len(SourcesEventsOf(c)) = 2
    /\ SourcesEventsOf(c)[1].content.sources # SourcesEventsOf(c)[2].content.sources
    /\ Len(allSources[c]) >= 4

\* The sources lists of the sources events a call wrote, concatenated.
StreamedSources(c) ==
  Flatten([k \in 1..Len(SourcesEventsOf(c)) |-> SourcesEventsOf(c)[k].content.sources])

\* C23: the Summarizing event of a call carries the whole Source Set, which
\* is the concatenation of the lists of its sources events, and its Complete
\* event carries the same list.
C23_StatusSourceLists ==
  \A c \in Calls :
    LET sts == StatusEventsOf(c)
    IN \A k \in 1..Len(sts) :
         /\ sts[k].content.status = Summarizing =>
              /\ sts[k].content.sources = SerializeAll(allSources[c])
              /\ sts[k].content.sources = StreamedSources(c)
         /\ sts[k].content.status = Complete =>
              /\ sts[k].content.sources = StreamedSources(c)
              /\ \E j \in 1..(k - 1) :
                   /\ sts[j].content.status = Summarizing
                   /\ sts[j].content.sources = sts[k].content.sources

C23_Witness ==
  \E c \in Calls :
    /\ HasStatus(c, Complete)
    /\ Len(SourcesEventsOf(c)) = 2
    /\ Len(DeltaEventsOf(c)) >= 1
    /\ Len(StreamedSources(c)) > SliceCap

\* The events of the reducer's call that this model may put on a channel.
OwnChannelEvents == { e \in ChannelEvents : IsRelevant(e, propId) }

\* C24: folding a status event sets status to the event's status, summary to
\* the summary it carries (the empty string included), error to the error it
\* carries, and leaves summary and error alone when the event lacks them.
C24_StatusTransition ==
  mounted =>
    \A e \in OwnChannelEvents :
      e.type = StatusType =>
        LET st == FoldDelta(ReducerState, e)
        IN /\ st.status = e.content.status
           /\ st.summary = IF "summary" \in DOMAIN e.content
                             THEN e.content.summary ELSE summary
           /\ st.error = IF "error" \in DOMAIN e.content
                           THEN e.content.error ELSE error

SourcesGrow(before, after) ==
  /\ IsPrefix(before, after)
  /\ IsPrefix(uniqueSources(before), uniqueSources(after))

\* C25: folding any event, and any effect run, extends the raw source sequence
\* and the deduplicated view at the end only; a summary-delta event leaves
\* the sources unchanged.
C25_SourcesAppendOnly ==
  /\ [](mounted =>
          \A e \in OwnChannelEvents :
            /\ SourcesGrow(sources, FoldDelta(ReducerState, e).sources)
            /\ e.type = DeltaType => FoldDelta(ReducerState, e).sources = sources)
  /\ [][SourcesGrow(sources, sources')]_vars

C25_Witness ==
  /\ mounted
  /\ seenLen = 2
  /\ Len(sources) >= 3
  /\ Len(uniqueSources(sources)) < Len(sources)
  /\ \E k \in 1..Len(dataStream) : IsTerminalEvent(dataStream[k])

\* C26: folding a sources or status event a second time, or folding the whole
\* log again, adds nothing to the sources and keeps the record of every url.
C26_SourceMergeIdempotent ==
  mounted =>
    /\ \A e \in OwnChannelEvents :
         e.type \in {SourcesType, StatusType} =>
           LET once  == FoldDelta(ReducerState, e)
               twice == FoldDelta(once, e)
           IN /\ twice.sources = once.sources
              /\ uniqueSources(twice.sources) = uniqueSources(once.sources)
    /\ seenLen = Len(dataStream) =>
         LET again == FoldAll(ReducerState, OwnEvents)
         IN /\ again.sources = sources
            /\ uniqueSources(again.sources) = uniqueSources(sources)

C26_Witness ==
  /\ mounted
  /\ seenLen = 2
  /\ Len(dataStream) = 2
  /\ dataStream[1] = dataStream[2]
  /\ dataStream[1].type = SourcesType
  /\ IsRelevant(dataStream[1], propId)
  /\ Len(sources) > Len(InitialSources(initialResult))

OwnStatusEvents == SelectSeq(OwnEvents, LAMBDA e : e.type = StatusType)

\* C28: after an effect run over any log the status is that of the last
\* status event of the call in the log, terminal statuses before it
\* notwithstanding, and Searching when the log has no status event of the call.
C28_PostTerminalEventsFolded ==
  (mounted /\ seenLen = Len(dataStream)) =>
    status = IF Len(OwnStatusEvents) = 0 THEN Searching
             ELSE OwnStatusEvents[Len(OwnStatusEvents)].content.status

C28_Witness ==
  /\ mounted
  /\ seenLen = 2
  /\ Len(OwnStatusEvents) = 2
  /\ OwnStatusEvents[1].content.status \in TerminalStatuses
  /\ OwnStatusEvents[2].content.status # OwnStatusEvents[1].content.status
  /\ status = OwnStatusEvents[2].content.status

\* ------------------------------------------- a call and the reducer bound to it
\* The component is rendered for call c while the call runs or after it, with
\* the call's identifier and no initialResult.
Mount(c) ==
  /\ ~mounted
  /\ Started(c)
  /\ mounted' = TRUE
  /\ propId' = toolCallId[c]
  /\ initialResult' = NoInitial
  /\ status' = Searching
  /\ sources' = InitialSources(NoInitial)
  /\ summary' = InitialSummary(NoInitial)
  /\ error' = Null
  /\ seenLen' = -1
  /\ UNCHANGED <<serverVars, dataStream>>

MountA == Mount("A")

\* One call with the credential and one or two queries.
InitEndToEnd ==
  /\ Init
  /\ apiKey
  /\ Len(queries["A"]) \in 1..2

NextEndToEnd ==
  \/ StartA \/ SettleA \/ CollectA \/ GenDeltaA \/ GenDoneA \/ GenFailA
  \/ MountA \/ RunEffect

SpecEndToEnd == InitEndToEnd /\ [][NextEndToEnd]_vars

\* The reducer is bound to call c and its effect has run on the whole log.
FoldedLogOf(c) ==
  /\ mounted
  /\ propId = toolCallId[c]
  /\ seenLen = Len(dataStream)

\* C27: once the log of a call that ended in Complete has been folded, however
\* often the fold ran before, the reducer shows Complete, no error, the
\* server's Summary Text and the first-seen-by-url view of the Source Set.
C27_EndToEndAgreement ==
  \A c \in Calls :
    (EndsInComplete(c) /\ FoldedLogOf(c)) =>
      /\ status = Complete
      /\ error = Null
      /\ summary = finalSummary[c]
      /\ uniqueSources(sources) = uniqueSources(SerializeAll(allSources[c]))

C27_Witness ==
  \E c \in Calls :
    /\ EndsInComplete(c)
    /\ FoldedLogOf(c)
    /\ Len(DeltaEventsOf(c)) = 2
    /\ Len(summary) >= 2
    /\ ~UniqueUrls(allSources[c])

\* C29: once the log of a call that ended in the catch block has been folded
\* the reducer shows the error status and a non-null error, whatever was thrown.
C29_ErrorStateVisible ==
  \A c \in Calls :
    (pc[c] = "returned" /\ caught[c] # NotCaught /\ FoldedLogOf(c)) =>
      /\ status = ErrorStatus
      /\ error # Null

\* --------------------------------------------- two calls on one channel
StartB    == Start("B")
SettleB   == Settle("B")
CollectB  == Collect("B")
GenDeltaB == GenDelta("B")
GenDoneB  == GenDone("B")
GenFailB  == GenFail("B")

\* Two calls of execute with the credential, one query each.
InitTwo ==
  /\ ServerInit(Calls)
  /\ ReducerIdle
  /\ apiKey
  /\ \A c \in Calls : Len(queries[c]) = 1

NextA == StartA \/ SettleA \/ CollectA \/ GenDeltaA \/ GenDoneA \/ GenFailA

NextB == StartB \/ SettleB \/ CollectB \/ GenDeltaB \/ GenDoneB \/ GenFailB

\* The inputs of the two-call runs: a request answers with no record or with
\* one, the generator yields one kind of fragment and fails with one Error.
TwoCallInputs ==
  /\ \A c \in Calls : \A i \in 1..Len(searchResponses[c]) :
       \/ searchResponses[c][i] = Pending
       \/ /\ searchResponses[c][i].how = "ok"
          /\ searchResponses[c][i].response.results \in { <<>>, <<rA1>> }
  /\ \A k \in 1..Len(dataStream) :
       dataStream[k].type = DeltaType => dataStream[k].content.delta = <<"a">>
  /\ \A c \in Calls :
       caught[c] \in {NotCaught, [name |-> "Error", message |-> "boom"]}

NextTwo == (NextA \/ NextB) /\ TwoCallInputs'

SpecTwo == InitTwo /\ [][NextTwo]_vars

\* Call B's requests settle and its generator ends; nothing is assumed of call A.
LiveSpecTwo ==
  /\ InitTwo
  /\ [][NextTwo]_vars
  /\ WF_vars(StartB)
  /\ WF_vars(SettleB)
  /\ WF_vars(CollectB)
  /\ WF_vars(GenDoneB \/ GenFailB)

C30_IndependentCalls ==
  /\ [](/\ pc["B"] = "init" => ENABLED StartB
        /\ (pc["B"] = "fetching" /\ AllSettled("B")) => ENABLED CollectB
        /\ pc["B"] = "streaming" => ENABLED GenDoneB)
  /\ (pc["B"] = "fetching") ~>
       (/\ pc["B"] = "returned"
        /\ result["B"].kind = "returned"
        /\ Len(TerminalEventsOf("B")) >= 1)

C30_Witness ==
  /\ pc["B"] = "returned"
  /\ HasStatus("B", Complete)
  /\ toolCallId["A"] # toolCallId["B"]
  /\ dataStream[1].content.toolCallId = toolCallId["A"]
  /\ pc["A"] = "fetching"
  /\ \E i \in 1..Len(searchResponses["A"]) : searchResponses["A"][i] = Pending

\* C31: for a call that ended in Complete, Source k of the prompt, the k-th
\* returned source and the k-th source of the reducer's view after folding
\* the call's events have the same url, and the three lists are equally long.
C31_CitationIndexAgreement ==
  \A c \in Calls :
    (EndsInComplete(c) /\ FoldedLogOf(c)) =>
      LET cited    == prompt[c].context
          returned == result[c].value.sources
          view     == uniqueSources(sources)
      IN /\ Len(cited) = Len(returned)
         /\ Len(cited) = Len(view)
         /\ \A k \in 1..Len(cited) :
              /\ cited[k].index = k
              /\ k <= Len(returned) => cited[k].url = returned[k].url
              /\ k <= Len(view) => cited[k].url = view[k].url

\* C32: the spinner shows exactly while status is Searching or Summarizing;
\* with no error exactly one of placeholder and tabs shows, the placeholder
\* exactly when status is Searching and the view is empty; with an error
\* neither shows; and a folded terminated call shows the tabs at Complete, the
\* tabs with the no-results text at No results, the error text at Error.
C32_PresentationPredicates ==
  mounted =>
    LET shown == Render(ReducerState)
        view  == uniqueSources(sources)
    IN /\ shown.spinner <=> status \in {Searching, Summarizing}
       /\ error = Null =>
            /\ shown.placeholder # shown.tabs
            /\ shown.placeholder <=> (status = Searching /\ Len(view) = 0)
       /\ error # Null => (~shown.placeholder /\ ~shown.tabs)
       /\ \A c \in Calls :
            (pc[c] = "returned" /\ FoldedLogOf(c)) =>
              /\ status \in TerminalStatuses
              /\ status = Complete =>
                   (shown.tabs /\ ~shown.noResultsText /\ shown.errorText = Null)
              /\ status = NoResults =>
                   (shown.tabs /\ shown.noResultsText /\ shown.errorText = Null)
              /\ status = ErrorStatus =>
                   (~shown.tabs /\ shown.errorText # Null)

====
